---------------------------- MODULE Spec2Model ----------------------------
(***************************************************************************)
(* Model of the two scripts of the repository:                             *)
(*   performance_test.py            individual vs batch timing simulation  *)
(*   calculate_metrics_...py        classification metrics of a result CSV *)
(*                                                                         *)
(* Times are integers counted in tenths of a second (4.0 s is 40).         *)
(* random.uniform(a, b) is a choice between the two end points of the      *)
(* interval.  Ratios of floats are kept as exact fractions.                *)
(***************************************************************************)
EXTENDS Integers, Sequences, FiniteSets, TLC

\* ------------------------------------------------------------------ bounds
MaxApks == 5
MaxBatch == 3
MaxPar == 2
MaxRecords == 3
\* Stand-in for num_apks = 100 of analyze_batch_configurations.
AnalysisApks == 6
\* Stand-in for test_cases = [10, 25, 50, 100, 200] of compare_performance:
\* the job counts 1 .. NumCases.
NumCases == 2

\* ------------------------------------------------------- program constants
DefaultAvgTimePerApk == 40
DefaultAvgTimePerBatch == 50
CompareBatchSize == 8
CompareParallelBatches == 2

TestCases == [k \in 1..NumCases |-> k]

Configurations ==
    << <<5, 1>>, <<8, 2>>, <<10, 2>>, <<15, 3>>, <<20, 1>> >>

\* Arguments tried for a direct call of a simulator.
ApkCounts == -1..MaxApks
BatchSizes == -1..MaxBatch
ParallelCounts == -1..MaxPar
AvgApkTimes == {-10, 0, 10, 40}
AvgBatchTimes == {-10, 0, 5, 10, 50}

\* ------------------------------------------------------------ arithmetic
\* Python's a // b for b # 0 (floor division, either sign of b).
PyFloorDiv(a, b) == IF b > 0 THEN a \div b ELSE (-a) \div (-b)

PyMinInt(a, b) == IF b < a THEN b ELSE a

\* A single copy whatever k is.
RepeatOnce(x, k) == <<x>>

\* [x] * k : k copies of x, none when k <= 0.
Repeat(x, k) == [j \in 1..(IF k > 0 THEN k ELSE 0) |-> x]

\* random.uniform(a, b): a + (b - a) * random(); a may exceed b.
Uniform(a, b) == {a, b}

Abs(a) == IF a < 0 THEN -a ELSE a

RECURSIVE Gcd(_, _)
Gcd(a, b) == IF b = 0 THEN a ELSE Gcd(b, a % b)

\* The fraction n / d (d # 0) in lowest terms with a positive denominator.
Frac(n, d) ==
    LET g == Gcd(Abs(n), Abs(d))
        s == IF d < 0 THEN -1 ELSE 1
    IN  [num |-> s * (n \div g), den |-> s * (d \div g)]

FracAdd(p, q) == Frac(p.num * q.den + q.num * p.den, p.den * q.den)

FracZero == [num |-> 0, den |-> 1]

\* sum(f(r) for r in seq), left to right from 0.
RECURSIVE PySum(_, _)
PySum(seq, field) ==
    IF seq = << >> THEN FracZero
    ELSE FracAdd(PySum(SubSeq(seq, 1, Len(seq) - 1), field),
                 seq[Len(seq)][field])

\* total / count for count # 0.
FracDivInt(p, n) == Frac(p.num, p.den * n)


\* ------------------------------------------------------------------ state
VARIABLES
    entry,              \* what is run: a simulator call, main(), the metrics script
    pc,                 \* position in the running code
    ret,                \* where the running simulator returns to
    fn,                 \* the simulator called last
    err,                \* the exception raised, "none" while there is none
    num_apks, batch_size, parallel_batches, avg_time,   \* simulator arguments
    total_time, times, processed, i,                    \* simulator locals
    apks_per_iteration, iterations,
    log,                \* the lines printed by simulate_batch_analysis (line 56)
    tc, individual_time, results,                       \* compare_performance
    ci, config_results, best_config,                    \* analyze_batch_configurations
    summary,            \* main: avg_improvement, avg_time_saved
    records, accuracy, precision, recall, f1, cm,       \* metrics script
    misclassified, printed

simVars == <<num_apks, batch_size, parallel_batches, avg_time, total_time,
             times, processed, i, apks_per_iteration, iterations, log>>
cmpVars == <<tc, individual_time, results>>
anVars == <<ci, config_results, best_config>>
metricVars == <<records, accuracy, precision, recall, f1, cm, misclassified,
                printed>>
vars == <<entry, pc, ret, fn, err, simVars, cmpVars, anVars, summary,
          metricVars>>

\* ------------------------------------------- simulate_individual_analysis
\* Lines 14-19: the call and the initialisation of the locals.
EnterIndividual(n, avg, back) ==
    /\ fn' = "individual"
    /\ ret' = back
    /\ num_apks' = n
    /\ avg_time' = avg
    /\ batch_size' = 0
    /\ parallel_batches' = 0
    /\ total_time' = 0
    /\ times' = << >>
    /\ processed' = 0
    /\ i' = 0
    /\ apks_per_iteration' = 0
    /\ iterations' = 0
    /\ log' = << >>
    /\ pc' = "ind_loop"
    /\ err' = err

\* Lines 21-25: one pass of the loop over range(num_apks).
IndividualIter ==
    /\ pc = "ind_loop"
    /\ i < num_apks
    /\ \E analysis_time \in Uniform((avg_time * 7) \div 10, (avg_time * 13) \div 10) :
          /\ total_time' = total_time + analysis_time
          /\ times' = Append(times, total_time + analysis_time)
    /\ i' = i + 1
    /\ UNCHANGED <<entry, pc, ret, fn, err, num_apks, batch_size,
                   parallel_batches, avg_time, processed, apks_per_iteration,
                   iterations, log, cmpVars, anVars, summary, metricVars>>

\* Line 31: return total_time, times.
IndividualReturn ==
    /\ pc = "ind_loop"
    /\ i >= num_apks
    /\ pc' = ret
    /\ UNCHANGED <<entry, ret, fn, err, simVars, cmpVars, anVars, summary,
                   metricVars>>

\* ------------------------------------------------ simulate_batch_analysis
\* The quotient rounded down instead of up.
IterationCountFloor(n, u) == PyFloorDiv(n, u)

\* Line 44: the number of iterations, (n + u - 1) // u.
IterationCount(n, u) == PyFloorDiv(n + u - 1, u)

\* Lines 33-44: the call, the locals, and the iteration count; the floor
\* division raises ZeroDivisionError when batch_size * parallel_batches = 0.
EnterBatch(n, bs, pb, avg, back) ==
    /\ fn' = "batch"
    /\ ret' = back
    /\ num_apks' = n
    /\ batch_size' = bs
    /\ parallel_batches' = pb
    /\ avg_time' = avg
    /\ total_time' = 0
    /\ times' = << >>
    /\ processed' = 0
    /\ i' = 0
    /\ log' = << >>
    /\ apks_per_iteration' = bs * pb
    /\ IF bs * pb = 0
       THEN /\ iterations' = 0
            /\ pc' = "error"
            /\ err' = "ZeroDivisionError"
       ELSE /\ iterations' = IterationCount(n, bs * pb)
            /\ pc' = "batch_loop"
            /\ err' = err

\* A full iteration whatever is left.
ApksInThisIterationFull(u, n, done) == u

\* Line 48: the jobs recorded by one iteration.
ApksInThisIteration(u, n, done) == PyMinInt(u, n - done)

\* Lines 46-56: one pass of the loop over range(iterations).
BatchIter ==
    /\ pc = "batch_loop"
    /\ i < iterations
    /\ \E offset \in Uniform(-10, 10) :
         LET apks_in_this_iteration ==
                 ApksInThisIteration(apks_per_iteration, num_apks, processed)
             batch_time == avg_time + offset
         IN  /\ total_time' = total_time + batch_time
             /\ processed' = processed + apks_in_this_iteration
             /\ times' = times \o Repeat(total_time + batch_time,
                                         apks_in_this_iteration)
             /\ log' = Append(log, [batch |-> i + 1,
                                    apks |-> apks_in_this_iteration,
                                    batch_time |-> batch_time,
                                    processed |-> processed + apks_in_this_iteration])
    /\ i' = i + 1
    /\ UNCHANGED <<entry, pc, ret, fn, err, num_apks, batch_size,
                   parallel_batches, avg_time, apks_per_iteration, iterations,
                   cmpVars, anVars, summary, metricVars>>

\* Line 59: return total_time, times.
BatchReturn ==
    /\ pc = "batch_loop"
    /\ i >= iterations
    /\ pc' = ret
    /\ UNCHANGED <<entry, ret, fn, err, simVars, cmpVars, anVars, summary,
                   metricVars>>

\* A direct call of either simulator with arguments of the caller's choice.
CallIndividual ==
    /\ entry = "individual"
    /\ pc = "start"
    /\ \E n \in ApkCounts, avg \in AvgApkTimes : EnterIndividual(n, avg, "done")
    /\ UNCHANGED <<entry, cmpVars, anVars, summary, metricVars>>

CallBatch ==
    /\ entry = "batch"
    /\ pc = "start"
    /\ \E n \in ApkCounts, bs \in BatchSizes, pb \in ParallelCounts,
          avg \in AvgBatchTimes : EnterBatch(n, bs, pb, avg, "done")
    /\ UNCHANGED <<entry, cmpVars, anVars, summary, metricVars>>

\* ---------------------------------------------------- compare_performance
\* Lines 63-64: test_cases and the empty results list.
MainStart ==
    /\ entry = "main"
    /\ pc = "start"
    /\ pc' = "cmp_loop"
    /\ tc' = 1
    /\ results' = << >>
    /\ UNCHANGED <<entry, ret, fn, err, simVars, individual_time, anVars,
                   summary, metricVars>>

\* Line 74: simulate_individual_analysis(num_apks).
CompareCallIndividual ==
    /\ pc = "cmp_loop"
    /\ tc <= Len(TestCases)
    /\ EnterIndividual(TestCases[tc], DefaultAvgTimePerApk, "cmp_call_batch")
    /\ UNCHANGED <<entry, cmpVars, anVars, summary, metricVars>>

\* Line 77: simulate_batch_analysis(num_apks, batch_size=8, parallel_batches=2).
CompareCallBatch ==
    /\ pc = "cmp_call_batch"
    /\ individual_time' = total_time
    /\ EnterBatch(TestCases[tc], CompareBatchSize, CompareParallelBatches,
                  DefaultAvgTimePerBatch, "cmp_record")
    /\ UNCHANGED <<entry, tc, results, anVars, summary, metricVars>>

\* Lines 80-82: the three derived figures of one test case.
Improvement(apks, ind, batch) ==
    [APKs |-> apks,
     Individual_Time |-> ind,
     Batch_Time |-> batch,
     Time_Saved |-> ind - batch,
     Speed_Improvement |-> Frac(ind, batch),
     Percentage_Improvement |-> Frac((ind - batch) * 100, ind)]

\* Lines 80-91: the figures are appended to results; either division raises
\* ZeroDivisionError on a zero divisor.
CompareRecord ==
    /\ pc = "cmp_record"
    /\ IF total_time = 0 \/ individual_time = 0
       THEN /\ pc' = "error"
            /\ err' = "ZeroDivisionError"
            /\ UNCHANGED <<tc, results>>
       ELSE /\ results' = Append(results,
                   Improvement(TestCases[tc], individual_time, total_time))
            /\ tc' = tc + 1
            /\ pc' = "cmp_loop"
            /\ err' = err
    /\ UNCHANGED <<entry, ret, fn, simVars, individual_time, anVars, summary,
                   metricVars>>

\* Lines 100-102 and 185, 140-149: compare_performance returns results and
\* main enters analyze_batch_configurations.
CompareReturn ==
    /\ pc = "cmp_loop"
    /\ tc > Len(TestCases)
    /\ pc' = "an_loop"
    /\ ci' = 1
    /\ config_results' = << >>
    /\ UNCHANGED <<entry, ret, fn, err, simVars, cmpVars, best_config,
                   summary, metricVars>>

\* ------------------------------------------- analyze_batch_configurations
\* Lines 151-158: one batch trial for the next configuration.
AnalyzeCallBatch ==
    /\ pc = "an_loop"
    /\ ci <= Len(Configurations)
    /\ EnterBatch(AnalysisApks, Configurations[ci][1], Configurations[ci][2],
                  DefaultAvgTimePerBatch, "an_record")
    /\ UNCHANGED <<entry, cmpVars, anVars, summary, metricVars>>

\* Lines 160-165.
AnalyzeRecord ==
    /\ pc = "an_record"
    /\ config_results' = Append(config_results,
            [Batch_Size |-> batch_size,
             Parallel_Batches |-> parallel_batches,
             Total_Time |-> total_time])
    /\ ci' = ci + 1
    /\ pc' = "an_loop"
    /\ UNCHANGED <<entry, ret, fn, err, simVars, cmpVars, best_config,
                   summary, metricVars>>

\* min(seq, key=Total_Time) scanning from position k with `best` so far: a
\* later item replaces it only when its key is smaller.
RECURSIVE PyMinFrom(_, _, _)
PyMinFrom(seq, k, best) ==
    IF k > Len(seq) THEN best
    ELSE PyMinFrom(seq, k + 1,
                   IF seq[k].Total_Time < best.Total_Time THEN seq[k] ELSE best)

RECURSIVE PyMinLastFrom(_, _, _)
PyMinLastFrom(seq, k, best) ==
    IF k > Len(seq) THEN best
    ELSE PyMinLastFrom(seq, k + 1,
                   IF seq[k].Total_Time <= best.Total_Time THEN seq[k] ELSE best)

PyMinLast(seq) == PyMinLastFrom(seq, 2, seq[1])

\* Line 168: min(config_results, key=lambda x: x['Total_Time']).
PyMin(seq) == PyMinFrom(seq, 2, seq[1])

\* Lines 168-174.
AnalyzeBest ==
    /\ pc = "an_loop"
    /\ ci > Len(Configurations)
    /\ best_config' = PyMin(config_results)
    /\ pc' = "main_summary"
    /\ UNCHANGED <<entry, ret, fn, err, simVars, cmpVars, ci, config_results,
                   summary, metricVars>>

\* ------------------------------------------------------------------- main
\* Lines 192-193: sum(...) / len(results) for one field.
Mean(seq, field) == FracDivInt(PySum(seq, field), Len(seq))

\* Lines 192-193: the two averages; len(results) = 0 raises
\* ZeroDivisionError.
MainSummary ==
    /\ pc = "main_summary"
    /\ IF Len(results) = 0
       THEN /\ pc' = "error"
            /\ err' = "ZeroDivisionError"
            /\ summary' = summary
       ELSE /\ summary' = [avg_improvement |-> Mean(results, "Speed_Improvement"),
                           avg_time_saved |-> Mean(results, "Percentage_Improvement")]
            /\ pc' = "done"
            /\ err' = err
    /\ UNCHANGED <<entry, ret, fn, simVars, cmpVars, anVars, metricVars>>

\* --------------------------------------------------------- metrics script
\* The label values a result file may hold: the two classes and one other.
Labels == {"MALWARE", "SAFE", "OTHER"}

\* The label order given to confusion_matrix (line 32).
CmLabels == <<"MALWARE", "SAFE">>

\* The contents of the CSV file: up to MaxRecords rows of two labels.
CsvFiles == UNION {[1..n -> Labels \X Labels] : n \in 0..MaxRecords}

\* float('nan'), the mean of no values.
NaN == [num |-> 0, den |-> 0]

\* Lines 8-12: read_csv numbers the rows from 0; y_true and y_pred are the
\* two label columns.
ReadCsv ==
    /\ entry = "metrics"
    /\ pc = "start"
    /\ \E file \in CsvFiles :
         records' = [k \in 1..Len(file) |->
                        [index |-> k - 1,
                         GROUND_TRUTH_LABEL |-> file[k][1],
                         PREDICTED_LABEL |-> file[k][2]]]
    /\ pc' = "m_accuracy"
    /\ UNCHANGED <<entry, ret, fn, err, simVars, cmpVars, anVars, summary,
                   accuracy, precision, recall, f1, cm, misclassified, printed>>

\* The number of true entries of a boolean column.
Count(mask) == Cardinality({k \in 1..Len(mask) : mask[k]})

\* sklearn's accuracy_score: the mean of (y_true == y_pred), nan with a
\* RuntimeWarning when there is no sample.
AccuracyOf(rows) ==
    LET match == [k \in 1..Len(rows) |->
                     rows[k].GROUND_TRUTH_LABEL = rows[k].PREDICTED_LABEL]
    IN  IF Len(rows) = 0 THEN NaN ELSE Frac(Count(match), Len(rows))

\* Line 15.
AccuracyScore ==
    /\ pc = "m_accuracy"
    /\ accuracy' = AccuracyOf(records)
    /\ pc' = "m_prf"
    /\ UNCHANGED <<entry, ret, fn, err, simVars, cmpVars, anVars, summary,
                   records, precision, recall, f1, cm, misclassified, printed>>

\* unique_labels(y_true, y_pred).
PresentLabels(rows) ==
    {rows[k].GROUND_TRUTH_LABEL : k \in 1..Len(rows)}
        \cup {rows[k].PREDICTED_LABEL : k \in 1..Len(rows)}

\* The binary scores refuse (ValueError) a target of more than two labels,
\* and one of two labels neither of which is pos_label.
BinaryScoreRejects(rows, pos_label) ==
    \/ Cardinality(PresentLabels(rows)) > 2
    \/ /\ Cardinality(PresentLabels(rows)) = 2
       /\ pos_label \notin PresentLabels(rows)

\* n / d, and 0 (with a warning) when d = 0: sklearn's zero_division default.
Ratio0(n, d) == IF d = 0 THEN FracZero ELSE Frac(n, d)

TruePositives(rows, pos) ==
    Count([k \in 1..Len(rows) |->
              rows[k].GROUND_TRUTH_LABEL = pos /\ rows[k].PREDICTED_LABEL = pos])

FalsePositives(rows, pos) ==
    Count([k \in 1..Len(rows) |->
              rows[k].GROUND_TRUTH_LABEL # pos /\ rows[k].PREDICTED_LABEL = pos])

FalseNegatives(rows, pos) ==
    Count([k \in 1..Len(rows) |->
              rows[k].GROUND_TRUTH_LABEL = pos /\ rows[k].PREDICTED_LABEL # pos])

\* Lines 16-18: precision_score, recall_score, f1_score with
\* pos_label='MALWARE'.
PrecisionRecallF1 ==
    /\ pc = "m_prf"
    /\ IF BinaryScoreRejects(records, "MALWARE")
       THEN /\ pc' = "error"
            /\ err' = "ValueError"
            /\ UNCHANGED <<precision, recall, f1>>
       ELSE LET tp == TruePositives(records, "MALWARE")
                fp == FalsePositives(records, "MALWARE")
                fneg == FalseNegatives(records, "MALWARE")
            IN  /\ precision' = Ratio0(tp, tp + fp)
                /\ recall' = Ratio0(tp, tp + fneg)
                /\ f1' = Ratio0(2 * tp, 2 * tp + fp + fneg)
                /\ pc' = "m_print"
                /\ err' = err
    /\ UNCHANGED <<entry, ret, fn, simVars, cmpVars, anVars, summary, records,
                   accuracy, cm, misclassified, printed>>

\* Lines 21-25: the four metrics are printed.
PrintMetrics ==
    /\ pc = "m_print"
    /\ printed' = TRUE
    /\ pc' = "m_report"
    /\ UNCHANGED <<entry, ret, fn, err, simVars, cmpVars, anVars, summary,
                   records, accuracy, precision, recall, f1, cm, misclassified>>

\* Line 29: classification_report(y_true, y_pred) prints the per-class table
\* of the labels present.  With no row there is no label to tabulate, and
\* whether the library then raises is decided inside it: either outcome.
ClassificationReport ==
    /\ pc = "m_report"
    /\ \/ /\ pc' = "m_cm"
          /\ err' = err
       \/ /\ Len(records) = 0
          /\ pc' = "error"
          /\ err' = "ValueError"
    /\ UNCHANGED <<entry, ret, fn, simVars, cmpVars, anVars, summary,
                   metricVars>>

\* confusion_matrix(y_true, y_pred, labels): cell [r][c] counts the rows of
\* true label labels[r] and predicted label labels[c]; a row with a label
\* outside `labels` is counted nowhere.
ConfusionCells(rows, labels) ==
    [r \in 1..Len(labels) |->
        [c \in 1..Len(labels) |->
            Cardinality({k \in 1..Len(rows) :
                            /\ rows[k].GROUND_TRUTH_LABEL = labels[r]
                            /\ rows[k].PREDICTED_LABEL = labels[c]})]]

\* confusion_matrix raises ValueError when there are rows and no true label
\* is one of `labels`.
ConfusionRejects(rows, labels) ==
    /\ Len(rows) > 0
    /\ \A k \in 1..Len(rows) :
          \A r \in 1..Len(labels) : rows[k].GROUND_TRUTH_LABEL # labels[r]

\* Line 32.
ConfusionMatrix ==
    /\ pc = "m_cm"
    /\ IF ConfusionRejects(records, CmLabels)
       THEN /\ pc' = "error"
            /\ err' = "ValueError"
            /\ cm' = cm
       ELSE /\ cm' = ConfusionCells(records, CmLabels)
            /\ pc' = "m_misclassified"
            /\ err' = err
    /\ UNCHANGED <<entry, ret, fn, simVars, cmpVars, anVars, summary, records,
                   accuracy, precision, recall, f1, misclassified, printed>>

\* frame[mask]: the rows whose mask entry is true, in the frame's order.
RECURSIVE BoolIndex(_, _)
BoolIndex(rows, mask) ==
    IF rows = << >> THEN << >>
    ELSE LET rest == BoolIndex(Tail(rows), Tail(mask))
         IN  IF Head(mask) THEN <<Head(rows)>> \o rest ELSE rest

\* The selection with the comparison turned around.
MisclassifiedRowsEq(rows) ==
    BoolIndex(rows, [k \in 1..Len(rows) |->
                        rows[k].GROUND_TRUTH_LABEL = rows[k].PREDICTED_LABEL])

\* Line 44: results_df[GROUND_TRUTH_LABEL != PREDICTED_LABEL].
MisclassifiedRows(rows) ==
    BoolIndex(rows, [k \in 1..Len(rows) |->
                        rows[k].GROUND_TRUTH_LABEL # rows[k].PREDICTED_LABEL])

\* Lines 44-48.
FindMisclassified ==
    /\ pc = "m_misclassified"
    /\ misclassified' = MisclassifiedRows(records)
    /\ pc' = "m_summary"
    /\ UNCHANGED <<entry, ret, fn, err, simVars, cmpVars, anVars, summary,
                   records, accuracy, precision, recall, f1, cm, printed>>

\* Lines 51-63: the summary file is written from the values computed above.
WriteSummary ==
    /\ pc = "m_summary"
    /\ pc' = "done"
    /\ UNCHANGED <<entry, ret, fn, err, simVars, cmpVars, anVars, summary,
                   metricVars>>

\* ---------------------------------------------------------- specification
Entries == {"individual", "batch", "main", "metrics"}

Init ==
    /\ entry \in Entries
    /\ pc = "start"
    /\ ret = "done"
    /\ fn = "none"
    /\ err = "none"
    /\ num_apks = 0 /\ batch_size = 0 /\ parallel_batches = 0 /\ avg_time = 0
    /\ total_time = 0 /\ times = << >> /\ processed = 0 /\ i = 0
    /\ apks_per_iteration = 0 /\ iterations = 0 /\ log = << >>
    /\ tc = 1 /\ individual_time = 0 /\ results = << >>
    /\ ci = 1 /\ config_results = << >>
    /\ best_config = [Batch_Size |-> 0, Parallel_Batches |-> 0, Total_Time |-> 0]
    /\ summary = [avg_improvement |-> FracZero, avg_time_saved |-> FracZero]
    /\ records = << >>
    /\ accuracy = FracZero /\ precision = FracZero /\ recall = FracZero
    /\ f1 = FracZero
    /\ cm = <<<<0, 0>>, <<0, 0>>>>
    /\ misclassified = << >>
    /\ printed = FALSE

Next ==
    \/ CallIndividual
    \/ IndividualIter
    \/ IndividualReturn
    \/ CallBatch
    \/ BatchIter
    \/ BatchReturn
    \/ MainStart
    \/ CompareCallIndividual
    \/ CompareCallBatch
    \/ CompareRecord
    \/ CompareReturn
    \/ AnalyzeCallBatch
    \/ AnalyzeRecord
    \/ AnalyzeBest
    \/ MainSummary
    \/ ReadCsv
    \/ AccuracyScore
    \/ PrecisionRecallF1
    \/ PrintMetrics
    \/ ClassificationReport
    \/ ConfusionMatrix
    \/ FindMisclassified
    \/ WriteSummary

Spec == Init /\ [][Next]_vars

\* ------------------------------------------------------------ properties
PositiveBatchArgs == num_apks > 0 /\ batch_size > 0 /\ parallel_batches > 0

\* simulate_batch_analysis has returned to its caller.
BatchReturned == fn = "batch" /\ pc # "batch_loop" /\ err = "none"

\* simulate_individual_analysis has returned to its caller.
IndividualReturned == fn = "individual" /\ pc # "ind_loop" /\ err = "none"

NonDecreasing(seq) == \A k \in 1..(Len(seq) - 1) : seq[k] <= seq[k + 1]

\* The least k with k * u >= n, for n > 0 and u > 0.
CeilDiv(n, u) == CHOOSE k \in 1..n : k * u >= n /\ (k - 1) * u < n

\* The sum of the first k batch times printed.
RECURSIVE ElapsedAfter(_, _)
ElapsedAfter(lines, k) ==
    IF k = 0 THEN 0 ELSE ElapsedAfter(lines, k - 1) + lines[k].batch_time

\* C1: with positive num_apks, batch_size and parallel_batches, the jobs
\* recorded by simulate_batch_analysis never exceed num_apks after any
\* iteration, and the returned completion times have exactly num_apks
\* entries (processed = num_apks).
C1_NeverExceedsJobCount ==
    (fn = "batch" /\ PositiveBatchArgs) =>
        /\ processed <= num_apks
        /\ Len(times) = processed
        /\ BatchReturned => (processed = num_apks /\ Len(times) = num_apks)

C1_Witness ==
    /\ BatchReturned /\ PositiveBatchArgs
    /\ i >= 2
    /\ num_apks % apks_per_iteration # 0
    /\ processed = num_apks
    /\ Len(times) = num_apks

\* C2: with a positive job count and positive time parameters, the
\* completion times returned by either simulator are non-decreasing.
C2_NonDecreasing ==
    /\ (IndividualReturned /\ num_apks > 0 /\ avg_time > 0)
          => NonDecreasing(times)
    /\ (BatchReturned /\ PositiveBatchArgs /\ avg_time > 0)
          => NonDecreasing(times)

\* Totals of an individual trial of one job with avg_time_per_apk 1.0, 4.0.
IndividualTotals == Uniform(7, 13) \cup Uniform(28, 52)

\* C3: a batched trial produced with positive time parameters has a total
\* time > 0, and the speed improvement individual_time / batch_time of
\* compare_performance is > 0 for it and in every entry of results.
C3_SpeedImprovementPositive ==
    /\ (BatchReturned /\ PositiveBatchArgs /\ avg_time > 0) =>
          /\ total_time > 0
          /\ \A ind \in IndividualTotals :
                Improvement(num_apks, ind, total_time).Speed_Improvement.num > 0
    /\ \A k \in 1..Len(results) : results[k].Speed_Improvement.num > 0

\* C4: with positive arguments simulate_batch_analysis runs exactly
\* ceil(num_apks / (batch_size * parallel_batches)) iterations, one draw
\* each, and exactly one when batch_size * parallel_batches >= num_apks.
C4_IterationCount ==
    (BatchReturned /\ PositiveBatchArgs) =>
        /\ i = CeilDiv(num_apks, batch_size * parallel_batches)
        /\ Len(log) = i
        /\ (batch_size * parallel_batches >= num_apks) => i = 1

C4_Witness ==
    /\ BatchReturned /\ PositiveBatchArgs
    /\ i = 3
    /\ Len(log) = 3
    /\ num_apks = 5
    /\ batch_size * parallel_batches = 2

\* The configuration search has selected its best configuration.
SearchDone == entry = "main" /\ pc \in {"main_summary", "done"}

\* C5: the configuration selected has the minimum Total_Time of all the
\* candidates, and is the earliest candidate in the supplied order that has
\* it.
C5_MinimumFirstOnTies ==
    SearchDone =>
        \E k \in 1..Len(config_results) :
            /\ best_config = config_results[k]
            /\ \A j \in 1..Len(config_results) :
                  config_results[j].Total_Time >= best_config.Total_Time
            /\ \A j \in 1..(k - 1) :
                  config_results[j].Total_Time > best_config.Total_Time

C5_Witness ==
    /\ SearchDone
    /\ best_config = config_results[3]
    /\ config_results[5].Total_Time = best_config.Total_Time
    /\ config_results[2].Total_Time > best_config.Total_Time

\* The confusion matrix has been computed.
MatrixDone ==
    entry = "metrics" /\ pc \in {"m_misclassified", "m_summary", "done"}

\* C6: for every non-empty sequence of records the four cells of the
\* confusion matrix sum to the number of records.
C6_CellsSumToRecordCount ==
    (MatrixDone /\ Len(records) > 0) =>
        cm[1][1] + cm[1][2] + cm[2][1] + cm[2][2] = Len(records)

\* A simulator was called with a non-positive argument.
InvalidArgs ==
    \/ fn = "individual" /\ (num_apks <= 0 \/ avg_time <= 0)
    \/ fn = "batch" /\ (num_apks <= 0 \/ batch_size <= 0
                           \/ parallel_batches <= 0 \/ avg_time <= 0)

\* C7: a simulator called with a non-positive batch_size, parallel_batches,
\* job count or average time fails before producing any result: no
\* iteration runs and no (total_time, completion_times) pair is returned.
C7_InvalidConfigRejected ==
    InvalidArgs =>
        /\ i = 0
        /\ times = << >>
        /\ ~(IndividualReturned \/ BatchReturned)

\* The four metrics of the metrics script have been computed.
MetricsComputed ==
    /\ entry = "metrics"
    /\ pc \in {"m_print", "m_report", "m_cm", "m_misclassified", "m_summary",
               "done"}

\* sum(r[field] for r in seq) taken from the front.
RECURSIVE SumFromFront(_, _)
SumFromFront(seq, field) ==
    IF seq = << >> THEN FracZero
    ELSE FracAdd(Head(seq)[field], SumFromFront(Tail(seq), field))

\* p = q / n for fractions p, q and n > 0.
IsQuotient(p, q, n) == p.num * (q.den * n) = q.num * p.den

\* C8: the metrics evaluation of an empty record list fails (no metric is
\* computed or printed), the aggregate of an empty list of comparison
\* results fails, and the aggregate of a non-empty list is the arithmetic
\* mean of each field.
C8_EmptyInputFails ==
    /\ (entry = "metrics" /\ pc # "start" /\ Len(records) = 0) =>
          (~MetricsComputed /\ ~printed)
    /\ (entry = "main" /\ pc = "done") =>
          /\ Len(results) > 0
          /\ IsQuotient(summary.avg_improvement,
                        SumFromFront(results, "Speed_Improvement"), Len(results))
          /\ IsQuotient(summary.avg_time_saved,
                        SumFromFront(results, "Percentage_Improvement"),
                        Len(results))

\* The misclassified rows have been selected.
SelectionDone == entry = "metrics" /\ pc \in {"m_summary", "done"}

\* C9: the misclassified rows and the rows whose labels agree are disjoint
\* and together hold every input row exactly once, and the misclassified
\* rows keep the order of the input.
C9_MisclassifiedPartition ==
    SelectionDone =>
        LET Agree(r) == r.GROUND_TRUTH_LABEL = r.PREDICTED_LABEL
            InMis(r) == \E k \in 1..Len(misclassified) : misclassified[k] = r
        IN  /\ \A k \in 1..Len(records) :
                  InMis(records[k]) <=> ~Agree(records[k])
            /\ \A k \in 1..Len(misclassified) :
                  /\ ~Agree(misclassified[k])
                  /\ \E j \in 1..Len(records) : records[j] = misclassified[k]
            /\ Len(misclassified)
                  + Cardinality({k \in 1..Len(records) : Agree(records[k])})
                  = Len(records)
            /\ \A j, k \in 1..Len(misclassified) :
                  j < k => misclassified[j].index < misclassified[k].index

C9_Witness ==
    /\ SelectionDone
    /\ Len(misclassified) = 2
    /\ Len(records) = 3
    /\ records[2].GROUND_TRUTH_LABEL = records[2].PREDICTED_LABEL

\* C10: with positive arguments every iteration but the last records
\* batch_size * parallel_batches jobs, the last records the remaining
\* num_apks - (iterations - 1) * batch_size * parallel_batches, between 1 and
\* a full iteration; the entries of one iteration all equal the cumulative
\* total after its draw, and total_time is the last completion time.
C10_IterationShape ==
    (BatchReturned /\ PositiveBatchArgs) =>
        LET u == batch_size * parallel_batches
            n == Len(log)
        IN  /\ n >= 1
            /\ \A j \in 1..(n - 1) : log[j].apks = u
            /\ log[n].apks = num_apks - (n - 1) * u
            /\ log[n].apks \in 1..u
            /\ Len(times) = num_apks
            /\ \A j \in 1..n :
                  \A k \in ((j - 1) * u + 1)..PyMinInt(j * u, num_apks) :
                      times[k] = ElapsedAfter(log, j)
            /\ total_time = times[Len(times)]

C10_Witness ==
    /\ BatchReturned /\ PositiveBatchArgs
    /\ Len(log) = 2
    /\ log[1].apks = 2
    /\ log[2].apks = 1
    /\ times[1] # times[3]

=============================================================================
